---- MODULE Spec2Model ----
(***************************************************************************)
(* The editable transaction grid of open_grid_multicurrency                *)
(* (gui/widgets/transaction_grid.py), its delegates, the Transaction       *)
(* model and the SQLite record store, as a state machine.                  *)
(*                                                                         *)
(* Row indexes are zero-based as in the source; row r of the grid is       *)
(* rows[r + 1].  Python None is NoneId (0) for identities and references.  *)
(* A name is a sequence of tokens, the display decorations "NEW: " and     *)
(* "MODIFIED: " being one token each, so that startswith() and [5:] are    *)
(* computed on the text and not assumed.                                   *)
(***************************************************************************)
EXTENDS Integers, Sequences, FiniteSets, TLC

(* ------------------------------ bounds -------------------------------- *)
MaxSteps == 3      \* user operations after the rows typed at the start
MaxEdits == 2      \* cell edits among them
MaxRows == 3       \* rows the grid may hold, the add row included
MaxPending == 1    \* deferred highlight_new_row callbacks counted per row

(* ----------------------------- constants ------------------------------ *)
COL_NAME == 1
COL_DESCRIPTION == 2
COL_ACCOUNT == 3
COL_TYPE == 4
COL_VALUE == 5
COL_CATEGORY == 6
COL_SUBCATEGORY == 7
COL_DATE == 8

NoneId == 0        \* Python None (id, account_id, category_id, ...)
Unset == -1        \* a QTableWidgetItem whose UserRole was never written

NEW_PREFIX == "NEW: "
MODIFIED_PREFIX == "MODIFIED: "
PLUS == <<"+">>

NameRequired == "Name is required"
AccountRequired == "Account is required"
TypeRequired == "Type is required"
DateRequired == "Date is required"

(* datetime.now().strftime("%Y-%m-%d"), the default date of Transaction()  *)
Today == "2024-06-01"
(* the dates of the model, newest first (ORDER BY transaction_date DESC)   *)
Dates == <<"2024-06-01", "2024-01-15", "">>

(* ------------------------ the lookup provider ------------------------- *)
AccountName(id) == IF id = 1 THEN "Cash" ELSE ""
CategoryName(id) == IF id = 1 THEN "Food" ELSE IF id = 2 THEN "Salary" ELSE ""
SubCategoryName(id) == IF id = 1 THEN "Lunch" ELSE ""
get_by_type(category_type) ==
    IF category_type = "Expense" THEN <<1>>
    ELSE IF category_type = "Income" THEN <<2>> ELSE <<>>
get_by_category(category_id) == IF category_id = 1 THEN <<1>> ELSE <<>>

(* ----------------------------- text ----------------------------------- *)
startswith(text, prefix) == Len(text) >= 1 /\ text[1] = prefix
(* text.strip() is empty *)
IsBlank(text) == \A i \in 1..Len(text) : text[i] = " "

(* float(text) with ValueError -> 0.0; a number is kept as its str()      *)
IsNumber(text) == text \in {"0", "0.0", "1", "1.0", "1.5"}
float(text) ==
    IF ~IsNumber(text) THEN "0.0"
    ELSE IF text = "0" THEN "0.0"
    ELSE IF text = "1" THEN "1.0" ELSE text
IsZero(value) == value \in {"0", "0.0"}
(* NUMERIC affinity: a float that is an exact integer is stored as integer *)
Numeric(value) ==
    IF value = "0.0" THEN "0" ELSE IF value = "1.0" THEN "1" ELSE value

(* ------------------------ Transaction objects ------------------------- *)
Transaction(id, name, description, account_id, transaction_type, category_id, sub_category_id, date, value) ==
    [id |-> id, name |-> name, description |-> description,
     account_id |-> account_id, transaction_type |-> transaction_type,
     category_id |-> category_id, sub_category_id |-> sub_category_id,
     date |-> IF date # "" THEN date ELSE Today, value |-> value]

(* the fields of a record without its identity *)
Fields(t) ==
    <<t.name, t.description, t.account_id, t.transaction_type, t.value,
      t.category_id, t.sub_category_id, t.date>>

(* a row of the transactions table holding the object's to_dict()         *)
to_dict(t) == [t EXCEPT !.value = Numeric(t.value)]

from_db_row(row) ==
    Transaction(row.id, row.name, row.description, row.account_id,
                row.transaction_type, row.category_id, row.sub_category_id,
                row.date, row.value)

(* the NOT NULL columns of the transactions table                         *)
Rejected(t) == t.account_id = NoneId

(* ----------------------- validate_transaction ------------------------- *)
(* the same checks with the account asked for before the name             *)
validate_transaction_account_first(t) ==
    IF t.account_id = NoneId THEN <<FALSE, AccountRequired>>
    ELSE IF t.name = <<>> \/ IsBlank(t.name) THEN <<FALSE, NameRequired>>
    ELSE IF t.transaction_type = "" THEN <<FALSE, TypeRequired>>
    ELSE IF t.date = "" THEN <<FALSE, DateRequired>>
    ELSE <<TRUE, "">>

validate_transaction(t) ==
    IF t.name = <<>> \/ IsBlank(t.name) THEN <<FALSE, NameRequired>>
    ELSE IF t.account_id = NoneId THEN <<FALSE, AccountRequired>>
    ELSE IF t.transaction_type = "" THEN <<FALSE, TypeRequired>>
    ELSE IF t.date = "" THEN <<FALSE, DateRequired>>
    ELSE <<TRUE, "">>

(* ------------------------------ state --------------------------------- *)
VARIABLES
    rows,            \* the table: one record of cells per row
    new_rows,        \* list of row indexes tagged new
    modified_rows,   \* list of row indexes tagged modified
    error_rows,      \* list of row indexes tagged error
    error_fields,    \* set of <<row, col>>
    changes,         \* the pending-changes dict, in insertion order
    timers,          \* row -> pending QTimer callbacks highlight_new_row(row)
    undo_stack,      \* deleted Transaction objects, last on top
    redo_stack,
    db,              \* the transactions table, in id order
    next_id,         \* AUTOINCREMENT
    locked,          \* the database file is locked: a write raises
    crashed,         \* an exception left a slot: the process aborted
    steps,           \* user operations so far
    edits,           \* cell edits among them
    lastOp,          \* the operation of the last step
    result,          \* what the operation of the last step returned
    emitted,         \* payload of validation_failed in the last step
    writes,          \* record store statements issued by the last step
    saved,           \* the last user operation was a save that returned True
    retry,           \* new rows the last save tagged error, only edited since
    edited,          \* <<row, column>> of the cell the last step committed
    undone,          \* the store as it was before the undo just performed
    clipboard,       \* the text the last step copied or pasted, and where
    placeholders     \* the records of the add rows deleted so far

vars == <<rows, new_rows, modified_rows, error_rows, error_fields, changes,
          timers, undo_stack, redo_stack, db, next_id, locked, crashed, steps,
          edits, lastOp, result, emitted, writes, saved, retry, edited,
          undone, clipboard, placeholders>>

(* the mutable state as one value, threaded through the handlers          *)
World ==
    [rows |-> rows, new_rows |-> new_rows, modified_rows |-> modified_rows,
     error_rows |-> error_rows, error_fields |-> error_fields,
     changes |-> changes, timers |-> timers, undo_stack |-> undo_stack,
     redo_stack |-> redo_stack, db |-> db, next_id |-> next_id,
     locked |-> locked, crashed |-> FALSE, result |-> "none", emitted |-> <<>>,
     writes |-> <<>>]

Commit(w, op) ==
    /\ rows' = w.rows
    /\ new_rows' = w.new_rows
    /\ modified_rows' = w.modified_rows
    /\ error_rows' = w.error_rows
    /\ error_fields' = w.error_fields
    /\ changes' = w.changes
    /\ timers' = w.timers
    /\ undo_stack' = w.undo_stack
    /\ redo_stack' = w.redo_stack
    /\ db' = w.db
    /\ next_id' = w.next_id
    /\ locked' = w.locked
    /\ crashed' = w.crashed
    /\ result' = w.result
    /\ emitted' = w.emitted
    /\ writes' = w.writes
    /\ lastOp' = op
    /\ saved' = IF op = "timer" THEN saved
                ELSE op = "save_all_changes" /\ w.result = "True"

(* ------------------------- list and row helpers ----------------------- *)
(* item.row(), item.column() when the last step was no cell edit          *)
NoEdit == <<-1, 0>>

(* No undo has just been performed.                                       *)
NoUndo == [valid |-> FALSE, db |-> <<>>]

(* The last step read and wrote no clipboard text: `text' is the text,    *)
(* `rows' the rows it was copied from, `at' the current row of the paste. *)
NoClipboard == [text |-> <<>>, rows |-> {}, at |-> -1]
Contains(list, x) == \E i \in 1..Len(list) : list[i] = x
(* list.remove(x): the first occurrence *)
Remove(list, x) ==
    IF ~Contains(list, x) THEN list
    ELSE LET i == CHOOSE k \in 1..Len(list) :
                     list[k] = x /\ \A j \in 1..(k - 1) : list[j] # x
         IN  SubSeq(list, 1, i - 1) \o SubSeq(list, i + 1, Len(list))
AppendNew(list, x) == IF Contains(list, x) THEN list ELSE Append(list, x)

rowCount(w) == Len(w.rows)

(* QTimer.singleShot(100, lambda: self.highlight_new_row(row)).  The      *)
(* callbacks that only repaint (refresh_row_styling,                      *)
(* update_error_row_styling) touch nothing of the state and are left out  *)
NoTimers == [row \in 0..(MaxRows - 1) |-> 0]
singleShot(w, row) ==
    IF row \in DOMAIN w.timers /\ w.timers[row] < MaxPending
    THEN [w EXCEPT !.timers[row] = @ + 1] ELSE w
Data(role) == IF role = Unset THEN NoneId ELSE role

(* an entry of self.changes: the key, and the object it holds, which is  *)
(* the object of grid row `row' (the same Python object) or, once that    *)
(* row is gone, the object as it was left (`rec', row = -1)               *)
NoRec == Transaction(NoneId, <<>>, "", NoneId, "", NoneId, NoneId, Today, "0.0")
ChangeValue(w, e) == IF e.row >= 0 THEN w.rows[e.row + 1].obj ELSE e.rec

(* self.changes[transaction.id] = transaction, for the object of `row'    *)
changes_set(w, row) ==
    LET key == w.rows[row + 1].obj.id
        entry == [key |-> key, row |-> row, rec |-> NoRec]
    IN  IF \E i \in 1..Len(w.changes) : w.changes[i].key = key
        THEN [w EXCEPT !.changes =
                 [i \in 1..Len(w.changes) |->
                     IF w.changes[i].key = key THEN entry ELSE w.changes[i]]]
        ELSE [w EXCEPT !.changes = Append(w.changes, entry)]

(* QTableWidget.removeRow: the rows below move up; the tag lists are not  *)
(* touched by Qt                                                          *)
removeRow(w, row) ==
    [w EXCEPT
       !.rows = SubSeq(w.rows, 1, row) \o SubSeq(w.rows, row + 2, Len(w.rows)),
       !.changes = [i \in 1..Len(w.changes) |->
           LET e == w.changes[i]
           IN  IF e.row = row
               THEN [e EXCEPT !.row = -1, !.rec = w.rows[row + 1].obj]
               ELSE IF e.row > row THEN [e EXCEPT !.row = e.row - 1] ELSE e]]

(* -------------------------- building rows ----------------------------- *)
populate_row(t) ==
    [marker |-> FALSE, name |-> t.name, description |-> t.description,
     account |-> AccountName(t.account_id), account_id |-> t.account_id,
     type |-> t.transaction_type, value |-> t.value,
     category |-> CategoryName(t.category_id), category_id |-> t.category_id,
     subcategory |-> SubCategoryName(t.sub_category_id),
     sub_category_id |-> t.sub_category_id, date |-> t.date, obj |-> t]

(* a row rebuilt by load_transactions for a kept unsaved transaction      *)
unsaved_row(t) ==
    [marker |-> FALSE, name |-> t.name, description |-> t.description,
     account |-> IF t.account_id # NoneId THEN AccountName(t.account_id)
                 ELSE "",
     account_id |-> t.account_id,
     type |-> t.transaction_type,
     value |-> IF IsZero(t.value) THEN "" ELSE t.value,
     category |-> IF t.category_id # NoneId THEN CategoryName(t.category_id)
                  ELSE "",
     category_id |-> t.category_id,
     subcategory |-> IF t.sub_category_id # NoneId
                     THEN SubCategoryName(t.sub_category_id) ELSE "",
     sub_category_id |-> t.sub_category_id, date |-> t.date, obj |-> t]

empty_row ==
    [marker |-> TRUE, name |-> PLUS, description |-> "", account |-> "",
     account_id |-> Unset, type |-> "", value |-> "", category |-> "",
     category_id |-> Unset, subcategory |-> "", sub_category_id |-> Unset,
     date |-> "",
     obj |-> [Transaction(NoneId, <<>>, "", NoneId, "", NoneId, NoneId, "",
                          "0.0") EXCEPT !.date = ""]]

add_empty_row(w) == [w EXCEPT !.rows = Append(w.rows, empty_row)]

(* the object of the row with the cells copied into it                    *)
ObjFromCells(r) ==
    [r.obj EXCEPT !.name = r.name, !.description = r.description,
                  !.account_id = Data(r.account_id),
                  !.transaction_type = r.type, !.value = float(r.value),
                  !.category_id = Data(r.category_id),
                  !.sub_category_id = Data(r.sub_category_id),
                  !.date = r.date]

(* get_transaction_from_row(row) for row < rowCount: the world after it;  *)
(* the returned transaction is w.rows[row + 1].obj of the result          *)
get_transaction_from_row(w, row) ==
    [w EXCEPT !.rows[row + 1].obj = ObjFromCells(w.rows[row + 1])]

(* --------------------------- highlighting ----------------------------- *)
highlight_new_row(w, row) ==
    LET w1 == [w EXCEPT !.new_rows = AppendNew(w.new_rows, row)]
    IN  IF row < rowCount(w1)
           /\ ~startswith(w1.rows[row + 1].name, NEW_PREFIX)
           /\ w1.rows[row + 1].name # PLUS
        THEN [w1 EXCEPT !.rows[row + 1].name = <<NEW_PREFIX>> \o @]
        ELSE w1

highlight_modified_row(w, row) ==
    LET w1 == [w EXCEPT !.modified_rows = AppendNew(w.modified_rows, row),
                        !.new_rows = Remove(w.new_rows, row)]
    IN  IF row < rowCount(w1)
           /\ ~startswith(w1.rows[row + 1].name, MODIFIED_PREFIX)
           /\ ~startswith(w1.rows[row + 1].name, NEW_PREFIX)
        THEN [w1 EXCEPT !.rows[row + 1].name = <<MODIFIED_PREFIX>> \o @]
        ELSE w1

ErrorCols(error_message) ==
    IF error_message = NameRequired THEN {COL_NAME}
    ELSE IF error_message = AccountRequired THEN {COL_ACCOUNT}
    ELSE IF error_message = TypeRequired THEN {COL_TYPE}
    ELSE IF error_message = DateRequired THEN {COL_DATE} ELSE {}

highlight_error_row_and_above(w, row, error_message) ==
    [w EXCEPT
       !.error_rows = AppendNew(AppendNew(w.error_rows, row), 0),
       !.new_rows = Remove(w.new_rows, row),
       !.modified_rows = Remove(w.modified_rows, row),
       !.error_fields =
           IF error_message # ""
           THEN {f \in w.error_fields : f[1] # row}
                \cup {<<row, c>> : c \in ErrorCols(error_message)}
           ELSE w.error_fields]

highlight_error_row(w, row, error_message) ==
    [w EXCEPT
       !.error_rows = AppendNew(w.error_rows, row),
       !.new_rows = Remove(w.new_rows, row),
       !.modified_rows = Remove(w.modified_rows, row),
       !.error_fields =
           IF error_message # ""
           THEN {f \in w.error_fields : f[1] # row}
                \cup {<<row, c>> : c \in ErrorCols(error_message)}
           ELSE w.error_fields]

(* ------------------------- the record store --------------------------- *)
(* SELECT ... ORDER BY t.transaction_date DESC, as Transaction objects    *)
RECURSIVE ByDate(_, _)
ByDate(table, k) ==
    IF k > Len(Dates) THEN <<>>
    ELSE SelectSeq(table, LAMBDA r : r.date = Dates[k]) \o ByDate(table, k + 1)

get_transactions_with_details(w) ==
    LET sorted == ByDate(w.db, 1)
    IN  [i \in 1..Len(sorted) |-> from_db_row(sorted[i])]

(* ------------------------- load_transactions -------------------------- *)
RECURSIVE unsaved_transactions(_, _)
unsaved_transactions(w, i) ==
    IF i > Len(w.new_rows) THEN <<>>
    ELSE LET row == w.new_rows[i]
         IN  IF row < rowCount(w)
             THEN LET t == ObjFromCells(w.rows[row + 1])
                  IN  IF ~w.rows[row + 1].marker /\ t.name # <<>>
                         /\ t.name # PLUS
                      THEN <<t>> \o unsaved_transactions(w, i + 1)
                      ELSE unsaved_transactions(w, i + 1)
             ELSE unsaved_transactions(w, i + 1)

RECURSIVE add_unsaved(_, _, _)
add_unsaved(w, unsaved, k) ==
    IF k > Len(unsaved) THEN w
    ELSE LET row == rowCount(w)
             w1 == [w EXCEPT !.rows = Append(w.rows, unsaved_row(unsaved[k])),
                             !.new_rows = Append(w.new_rows, row)]
         IN  add_unsaved(singleShot(highlight_new_row(w1, row), row),
                         unsaved, k + 1)

(* load_transactions with the add row appended before the unsaved rows    *)
load_transactions_add_row_first(w, transactions) ==
    add_unsaved(
        add_empty_row(
            [w EXCEPT
                !.rows = [i \in 1..Len(transactions) |->
                              populate_row(transactions[i])],
                !.changes = <<>>, !.new_rows = <<>>, !.modified_rows = <<>>,
                !.error_rows = <<>>, !.error_fields = {}]),
        unsaved_transactions(w, 1), 1)

load_transactions(w, transactions) ==
    LET unsaved == unsaved_transactions(w, 1)
        cleared == [w EXCEPT
            !.rows = [i \in 1..Len(transactions) |->
                          populate_row(transactions[i])],
            !.changes = <<>>, !.new_rows = <<>>, !.modified_rows = <<>>,
            !.error_rows = <<>>, !.error_fields = {}]
    IN  add_empty_row(add_unsaved(cleared, unsaved, 1))

(* ------------------------------ cells --------------------------------- *)
text_of(r, col) ==
    CASE col = COL_NAME -> r.name
      [] col = COL_DESCRIPTION -> r.description
      [] col = COL_ACCOUNT -> r.account
      [] col = COL_TYPE -> r.type
      [] col = COL_VALUE -> r.value
      [] col = COL_CATEGORY -> r.category
      [] col = COL_SUBCATEGORY -> r.subcategory
      [] col = COL_DATE -> r.date

with_text(r, col, text) ==
    CASE col = COL_NAME -> [r EXCEPT !.name = text]
      [] col = COL_DESCRIPTION -> [r EXCEPT !.description = text]
      [] col = COL_ACCOUNT -> [r EXCEPT !.account = text]
      [] col = COL_TYPE -> [r EXCEPT !.type = text]
      [] col = COL_VALUE -> [r EXCEPT !.value = text]
      [] col = COL_CATEGORY -> [r EXCEPT !.category = text]
      [] col = COL_SUBCATEGORY -> [r EXCEPT !.subcategory = text]
      [] col = COL_DATE -> [r EXCEPT !.date = text]

data_of(r, col) ==
    CASE col = COL_ACCOUNT -> r.account_id
      [] col = COL_CATEGORY -> r.category_id
      [] col = COL_SUBCATEGORY -> r.sub_category_id

with_data(r, col, data) ==
    CASE col = COL_ACCOUNT -> [r EXCEPT !.account_id = data]
      [] col = COL_CATEGORY -> [r EXCEPT !.category_id = data]
      [] col = COL_SUBCATEGORY -> [r EXCEPT !.sub_category_id = data]

(* item.text().strip() and item.text() != "+"                             *)
Typed(col, text) ==
    IF col = COL_NAME THEN ~IsBlank(text) /\ text # PLUS
    ELSE text \notin {"", " ", "+"}

(* --------------------------- on_item_changed -------------------------- *)
has_add_row(w) == \E i \in 1..Len(w.rows) : w.rows[i].marker

(* the three branches of on_item_changed, each on the world it is given  *)
ensure_add_row(w) == IF has_add_row(w) THEN w ELSE add_empty_row(w)

start_new_row_without_add_row(w, row) ==
    singleShot(
        highlight_new_row(
            [w EXCEPT !.new_rows = AppendNew(w.new_rows, row)], row),
        row)

(* the add row becomes a data entry row; `w' is the world after           *)
(* name_item.setData(UserRole, None)                                      *)
start_new_row(w, row) ==
    ensure_add_row(
        singleShot(
            highlight_new_row(
                [w EXCEPT !.new_rows = AppendNew(w.new_rows, row)], row),
            row))

mark_modified_alone(w, row) ==
    highlight_modified_row([w EXCEPT !.modified_rows = <<row>>], row)

(* an existing transaction; `w' is the world after                        *)
(* self.changes[transaction.id] = transaction                             *)
mark_modified(w, row) ==
    highlight_modified_row(
        IF ~Contains(w.modified_rows, row) /\ ~Contains(w.error_rows, row)
        THEN [w EXCEPT !.modified_rows = Append(w.modified_rows, row)]
        ELSE w,
        row)

(* on_item_changed after its get_transaction_from_row(row)                *)
RECURSIVE item_changed(_, _, _)
item_changed(w, row, col) ==
    IF w.rows[row + 1].marker /\ Typed(col, text_of(w.rows[row + 1], col))
    THEN \* name_item.setData(UserRole, None) emits itemChanged itself
         start_new_row(
             item_changed(
                 get_transaction_from_row(
                     [w EXCEPT !.rows[row + 1].marker = FALSE], row),
                 row, COL_NAME),
             row)
    ELSE IF Contains(w.new_rows, row) /\ ~w.rows[row + 1].marker
    THEN singleShot(highlight_new_row(w, row), row)
    ELSE IF w.rows[row + 1].obj.id # NoneId
    THEN mark_modified(changes_set(w, row), row)
    ELSE w

on_item_changed(w, row, col) ==
    item_changed(get_transaction_from_row(w, row), row, col)

(* QTableWidgetItem.setData(EditRole, text): returns early on an equal    *)
(* value, otherwise stores it and emits itemChanged                       *)
setText(w, row, col, text) ==
    IF text_of(w.rows[row + 1], col) = text THEN w
    ELSE on_item_changed(
             [w EXCEPT !.rows[row + 1] = with_text(@, col, text)], row, col)

(* QTableWidgetItem.setData(UserRole, data)                               *)
setData(w, row, col, data) ==
    IF data_of(w.rows[row + 1], col) = data THEN w
    ELSE on_item_changed(
             [w EXCEPT !.rows[row + 1] = with_data(@, col, data)], row, col)

(* ----------------------- delegates: setModelData ---------------------- *)
LineEdit_setModelData(w, row, col, text) == setText(w, row, col, text)

AccountDelegate_setModelData(w, row, account_id) ==
    setData(setText(w, row, COL_ACCOUNT, AccountName(account_id)),
            row, COL_ACCOUNT, account_id)

TransactionTypeDelegate_keeps_subcategory(w, row, value) ==
    LET w1 == setText(w, row, COL_TYPE, value)
        w2 == setText(w1, row, COL_CATEGORY, "")
    IN  setData(w2, row, COL_CATEGORY, NoneId)

TransactionTypeDelegate_setModelData(w, row, value) ==
    LET w1 == setText(w, row, COL_TYPE, value)
        w2 == setText(w1, row, COL_CATEGORY, "")
        w3 == setData(w2, row, COL_CATEGORY, NoneId)
        w4 == setText(w3, row, COL_SUBCATEGORY, "")
    IN  setData(w4, row, COL_SUBCATEGORY, NoneId)

CategoryDelegate_setModelData(w, row, category_id) ==
    LET w1 == setText(w, row, COL_CATEGORY, CategoryName(category_id))
        w2 == setData(w1, row, COL_CATEGORY, category_id)
        w3 == setText(w2, row, COL_SUBCATEGORY, "")
    IN  setData(w3, row, COL_SUBCATEGORY, NoneId)

SubCategoryDelegate_setModelData(w, row, subcategory_id) ==
    setData(setText(w, row, COL_SUBCATEGORY, SubCategoryName(subcategory_id)),
            row, COL_SUBCATEGORY, subcategory_id)

DateDelegate_setModelData(w, row, value) == setText(w, row, COL_DATE, value)

CurrencyDelegate_setModelData(w, row, value) ==
    setText(w, row, COL_VALUE, value)

(* ------------------- Transaction.save / delete ------------------------ *)
(* DatabaseConnection.execute_query re-raises what sqlite3 raises: a NOT  *)
(* NULL column of an inserted or updated row, or a locked database        *)
Raise(w) == [w EXCEPT !.crashed = TRUE, !.result = "raised"]

(* the statement as issued: its kind, the record it carries (for a DELETE *)
(* the stored row it names) and its outcome: it raised, it changed a row  *)
(* of the table, or it matched no row                                     *)
Statement(w, op, rec, outcome) ==
    [w EXCEPT !.writes =
         Append(w.writes, [op |-> op, rec |-> rec, outcome |-> outcome])]
Exists(w, id) == \E i \in 1..Len(w.db) : w.db[i].id = id
Outcome(w, id) == IF Exists(w, id) THEN "changed" ELSE "unchanged"

db_insert(w, t) ==
    IF w.locked \/ Rejected(t) THEN Raise(Statement(w, "insert", t, "raised"))
    ELSE [Statement(w, "insert", t, "changed") EXCEPT
            !.db = Append(w.db, [to_dict(t) EXCEPT !.id = w.next_id]),
            !.next_id = w.next_id + 1]

db_update(w, t) ==
    IF w.locked \/ (Rejected(t) /\ Exists(w, t.id))
    THEN Raise(Statement(w, "update", t, "raised"))
    ELSE [Statement(w, "update", t, Outcome(w, t.id)) EXCEPT
            !.db = [i \in 1..Len(w.db) |->
                       IF w.db[i].id = t.id THEN to_dict(t) ELSE w.db[i]]]

db_delete(w, t) ==
    LET stored == IF Exists(w, t.id)
                  THEN w.db[CHOOSE i \in 1..Len(w.db) : w.db[i].id = t.id]
                  ELSE to_dict(t)
    IN  IF w.locked THEN Raise(Statement(w, "delete", stored, "raised"))
        ELSE [Statement(w, "delete", stored, Outcome(w, t.id)) EXCEPT
                !.db = SelectSeq(w.db, LAMBDA r : r.id # t.id)]

(* Transaction.save(): the world after it; the object gets id saved_id    *)
Transaction_save(w, t) ==
    IF t.id = NoneId THEN db_insert(w, t) ELSE db_update(w, t)
saved_id(w, t) == IF t.id = NoneId THEN w.next_id ELSE t.id

Transaction_delete(w, t) == IF t.id = NoneId THEN w ELSE db_delete(w, t)

(* -------------------------- save_all_changes -------------------------- *)
(* the first row whose object has the identity of `t', or -1              *)
row_of_id(w, id) ==
    IF \E i \in 1..Len(w.rows) : w.rows[i].obj.id = id
    THEN (CHOOSE i \in 1..Len(w.rows) :
              w.rows[i].obj.id = id
              /\ \A j \in 1..(i - 1) : w.rows[j].obj.id # id) - 1
    ELSE -1

(* for transaction in self.changes.values(): ...                          *)
RECURSIVE save_changes(_, _)
save_changes(s, i) ==
    IF s.w.crashed \/ i > Len(s.w.changes) THEN s
    ELSE LET t == ChangeValue(s.w, s.w.changes[i])
             validation_result == validate_transaction(t)
             row == row_of_id(s.w, t.id)
         IN  IF validation_result[1]
             THEN save_changes([s EXCEPT !.w = Transaction_save(s.w, t)], i + 1)
             ELSE IF row >= 0
             THEN save_changes(
                      [s EXCEPT
                         !.w = highlight_error_row(s.w, row,
                                                   validation_result[2]),
                         !.validation_errors =
                             Append(@, <<row, validation_result[2]>>)],
                      i + 1)
             ELSE save_changes(s, i + 1)

(* the body of `for row in self.new_rows' for one row that is not the     *)
(* add row                                                                *)
(* transaction = self.get_transaction_from_row(row), then the "NEW: "    *)
(* prefix is removed; name_item.setText emits itemChanged                 *)
remove_new_prefix(w, row) ==
    IF w.rows[row + 1].obj.name # <<>>
       /\ startswith(w.rows[row + 1].obj.name, NEW_PREFIX)
    THEN setText([w EXCEPT !.rows[row + 1].obj.name = Tail(@)],
                 row, COL_NAME, Tail(w.rows[row + 1].obj.name))
    ELSE w

(* transaction.save(); saved_rows.append(row): `after' is the world       *)
(* after the save, in which the object got the identity `id'              *)
save_valid_row(s, row, after, id) ==
    IF after.crashed THEN [s EXCEPT !.w = after]
    ELSE [s EXCEPT !.w = [after EXCEPT !.rows[row + 1].obj.id = id],
                   !.saved_rows = Append(@, row)]

(* the row as validated: `w' is the world after the prefix was removed    *)
validate_new_row(s, row, w, validation_result) ==
    IF validation_result[1]
    THEN save_valid_row(s, row,
                        Transaction_save(w, w.rows[row + 1].obj),
                        saved_id(w, w.rows[row + 1].obj))
    ELSE [s EXCEPT
            !.w = highlight_error_row(w, row, validation_result[2]),
            !.validation_errors = Append(@, <<row, validation_result[2]>>)]

(* the new row saved without looking at the validation result            *)
checked_new_row_unvalidated(s, row, w) ==
    validate_new_row(s, row, w, <<TRUE, "">>)

checked_new_row(s, row, w) ==
    validate_new_row(s, row, w, validate_transaction(w.rows[row + 1].obj))

save_new_row(s, row) ==
    checked_new_row(s, row,
        remove_new_prefix(get_transaction_from_row(s.w, row), row))

(* for row in self.new_rows: the list iterator holds a position, and the  *)
(* body may remove from the list it walks                                 *)
RECURSIVE save_new_rows(_, _)
save_new_rows(s, i) ==
    IF s.w.crashed \/ i > Len(s.w.new_rows) THEN s
    ELSE LET row == s.w.new_rows[i]
         IN  IF row < rowCount(s.w) /\ ~s.w.rows[row + 1].marker
             THEN save_new_rows(save_new_row(s, row), i + 1)
             ELSE save_new_rows(s, i + 1)

RECURSIVE highlight_errors(_, _, _)
highlight_errors(w, validation_errors, k) ==
    IF k > Len(validation_errors) THEN w
    ELSE LET row == validation_errors[k][1]
         IN  highlight_errors(
                 IF row < rowCount(w)
                 THEN highlight_error_row(w, row, validation_errors[k][2])
                 ELSE w,
                 validation_errors, k + 1)

(* self.new_rows without the saved rows; self.changes.clear()             *)
forget_saved(s) ==
    [s.w EXCEPT
       !.new_rows = SelectSeq(s.w.new_rows,
                              LAMBDA row : ~Contains(s.saved_rows, row)),
       !.changes = <<>>]

(* the end of save_all_changes without the reload of the grid            *)
finish_save_without_reload(s) ==
    IF s.w.crashed THEN s.w
    ELSE IF s.validation_errors # <<>>
    THEN [highlight_errors(forget_saved(s), s.validation_errors, 1) EXCEPT
             !.emitted = s.validation_errors, !.result = "False"]
    ELSE [forget_saved(s) EXCEPT !.error_rows = <<>>, !.error_fields = {},
                                 !.modified_rows = <<>>, !.result = "True"]

(* the end of save_all_changes: `s' is the state after the two loops      *)
finish_save(s) ==
    IF s.w.crashed THEN s.w
    ELSE IF s.validation_errors # <<>>
    THEN [highlight_errors(forget_saved(s), s.validation_errors, 1) EXCEPT
             !.emitted = s.validation_errors, !.result = "False"]
    ELSE [load_transactions(
              [forget_saved(s) EXCEPT !.error_rows = <<>>,
                                      !.error_fields = {},
                                      !.modified_rows = <<>>],
              get_transactions_with_details(s.w))
          EXCEPT !.result = "True"]

save_all_changes(w) ==
    finish_save(
        save_new_rows(
            save_changes([w |-> w, validation_errors |-> <<>>,
                          saved_rows |-> <<>>], 1),
            1))

(* --------------------- delete_selected_transaction -------------------- *)
(* `selected' are the selected rows in descending order; the confirmation *)
(* dialog was answered Yes                                                *)
(* the body of the loop up to self.removeRow(row)                         *)
delete_row(w, row) ==
    IF Contains(w.new_rows, row)
    THEN [w EXCEPT !.new_rows = Remove(w.new_rows, row)]
    ELSE Transaction_delete(
             [w EXCEPT !.undo_stack =
                           Append(w.undo_stack, w.rows[row + 1].obj)],
             w.rows[row + 1].obj)

remove_deleted(w, row) == IF w.crashed THEN w ELSE removeRow(w, row)

RECURSIVE delete_rows(_, _, _)
delete_rows(w, selected, k) ==
    IF w.crashed \/ k > Len(selected) THEN w
    ELSE delete_rows(remove_deleted(delete_row(w, selected[k]), selected[k]),
                     selected, k + 1)

(* if self.rowCount() == 0 or not self.new_rows: self.add_empty_row()     *)
after_delete(w) ==
    IF w.crashed THEN w
    ELSE IF rowCount(w) = 0 \/ w.new_rows = <<>> THEN add_empty_row(w)
    ELSE w

delete_selected_transaction(w, selected) ==
    after_delete(delete_rows(w, selected, 1))

(* ---------------------------- clear_new_rows -------------------------- *)
RECURSIVE SortedDesc(_)
SortedDesc(S) ==
    IF S = {} THEN <<>>
    ELSE LET m == CHOOSE x \in S : \A y \in S : y <= x
         IN  <<m>> \o SortedDesc(S \ {m})
Range(list) == {list[i] : i \in 1..Len(list)}

RECURSIVE remove_rows(_, _, _)
remove_rows(w, sorted, k) ==
    IF k > Len(sorted) THEN w
    ELSE remove_rows(IF sorted[k] < rowCount(w) THEN removeRow(w, sorted[k])
                     ELSE w,
                     sorted, k + 1)

(* clear_new_rows recording each row it removes for undo                  *)
clear_new_rows_tracked(w) ==
    [remove_rows(w, SortedDesc(Range(w.new_rows)), 1) EXCEPT
        !.new_rows = <<>>,
        !.undo_stack =
            @ \o [k \in 1..Len(w.new_rows) |->
                     IF w.new_rows[k] < rowCount(w)
                     THEN w.rows[w.new_rows[k] + 1].obj ELSE NoRec]]

clear_new_rows(w) ==
    [remove_rows(w, SortedDesc(Range(w.new_rows)), 1) EXCEPT
        !.new_rows = <<>>]

(* ----------------------------- undo / redo ---------------------------- *)
(* the reload that ends undo and redo                                     *)
reload(w) ==
    IF w.crashed THEN w
    ELSE load_transactions(w, get_transactions_with_details(w))

(* transaction = self.undo_stack.pop(); self.redo_stack.append(...);      *)
(* transaction.save(): the object on the redo stack gets the identity     *)
undo_save(w, transaction, id) ==
    IF Transaction_save(w, transaction).crashed
    THEN Transaction_save(w, transaction)
    ELSE [Transaction_save(w, transaction) EXCEPT
             !.redo_stack[Len(w.redo_stack)].id = id]

undo_restoring_record(w) ==
    IF w.undo_stack = <<>> THEN w
    ELSE reload(
             db_insert(
                 [w EXCEPT
                    !.undo_stack = SubSeq(@, 1, Len(@) - 1),
                    !.redo_stack = Append(@, w.undo_stack[Len(w.undo_stack)])],
                 w.undo_stack[Len(w.undo_stack)]))

undo(w) ==
    IF w.undo_stack = <<>> THEN w
    ELSE reload(
             undo_save(
                 [w EXCEPT
                    !.undo_stack = SubSeq(@, 1, Len(@) - 1),
                    !.redo_stack = Append(@, w.undo_stack[Len(w.undo_stack)])],
                 w.undo_stack[Len(w.undo_stack)],
                 saved_id(w, w.undo_stack[Len(w.undo_stack)])))

redo(w) ==
    IF w.redo_stack = <<>> THEN w
    ELSE reload(
             Transaction_delete(
                 [w EXCEPT
                    !.redo_stack = SubSeq(@, 1, Len(@) - 1),
                    !.undo_stack = Append(@, w.redo_stack[Len(w.redo_stack)])],
                 w.redo_stack[Len(w.redo_stack)]))

(* ---------------------- copy_selection_to_clipboard ------------------- *)
(* A text is a sequence of characters; a word such as "Cash" stands for   *)
(* its characters, none of which is a tab, a newline, a quote or a space. *)
TAB == "\t"
NL == "\n"
QUOTE == "\""

(* item.text() as characters, and the cell text a run of characters is    *)
item_chars(r, col) ==
    IF col = COL_NAME THEN r.name
    ELSE IF text_of(r, col) = "" THEN <<>> ELSE <<text_of(r, col)>>

RECURSIVE concat(_)
concat(chars) ==
    IF chars = <<>> THEN "" ELSE chars[1] \o concat(Tail(chars))

item_text(col, chars) == IF col = COL_NAME THEN chars ELSE concat(chars)

(* csv.writer(delimiter='\t', lineterminator='\n'), QUOTE_MINIMAL: a     *)
(* field holding the delimiter, the quote character or a character of the *)
(* line terminator is quoted, and its quote characters are doubled        *)
needs_quotes(field) ==
    \E i \in 1..Len(field) : field[i] \in {TAB, QUOTE, NL}

RECURSIVE doubled(_)
doubled(field) ==
    IF field = <<>> THEN <<>>
    ELSE (IF field[1] = QUOTE THEN <<QUOTE, QUOTE>> ELSE <<field[1]>>)
         \o doubled(Tail(field))

csv_field(field) ==
    IF needs_quotes(field) THEN <<QUOTE>> \o doubled(field) \o <<QUOTE>>
    ELSE field

RECURSIVE join(_, _)
join(fields, sep) ==
    IF fields = <<>> THEN <<>>
    ELSE IF Len(fields) = 1 THEN fields[1]
    ELSE fields[1] \o <<sep>> \o join(Tail(fields), sep)

writerow(row_data) ==
    IF row_data = << <<>> >> THEN <<QUOTE, QUOTE, NL>>
    ELSE join([j \in 1..Len(row_data) |-> csv_field(row_data[j])], TAB)
         \o <<NL>>

(* the selected rows in ascending order, columns 1..8 (COL_ID is hidden)  *)
RECURSIVE copy_rows(_, _, _)
copy_rows(w, selected, row) ==
    IF row >= rowCount(w) THEN <<>>
    ELSE (IF row \in selected
          THEN writerow([col \in COL_NAME..COL_DATE |->
                            item_chars(w.rows[row + 1], col)])
          ELSE <<>>)
         \o copy_rows(w, selected, row + 1)

copy_selection_to_clipboard(w, selected) ==
    IF selected = {} THEN <<>> ELSE copy_rows(w, selected, 0)

(* ------------------------- paste_from_clipboard ----------------------- *)
(* text.split(sep)                                                        *)
RECURSIVE split(_, _)
split(text, sep) ==
    IF \A i \in 1..Len(text) : text[i] # sep THEN <<text>>
    ELSE LET k == CHOOSE i \in 1..Len(text) :
                      text[i] = sep /\ \A j \in 1..(i - 1) : text[j] # sep
         IN  <<SubSeq(text, 1, k - 1)>>
             \o split(SubSeq(text, k + 1, Len(text)), sep)

(* line.strip() is empty                                                  *)
blank_line(line) == \A i \in 1..Len(line) : line[i] \in {" ", TAB}

(* rows.append(line.split('\t')) for every line that is not blank         *)
RECURSIVE split_lines(_, _)
split_lines(lines, i) ==
    IF i > Len(lines) THEN <<>>
    ELSE (IF blank_line(lines[i]) THEN <<>> ELSE <<split(lines[i], TAB)>>)
         \o split_lines(lines, i + 1)

clipboard_rows(text) == split_lines(split(text, NL), 1)

(* `lines' are the non-blank lines of the clipboard text, each split on   *)
(* tabs; itemChanged is disconnected while the cells are written          *)
RECURSIVE paste_cells_padded(_, _, _)
paste_cells_padded(r, row_data, j) ==
    IF j > COL_DATE THEN r
    ELSE paste_cells_padded(
             with_text(r, j, item_text(j, IF j <= Len(row_data)
                                          THEN row_data[j] ELSE <<>>)),
             row_data, j + 1)

RECURSIVE paste_cells(_, _, _)
paste_cells(r, row_data, j) ==
    IF j > Len(row_data) THEN r
    ELSE paste_cells(IF j < 9
                     THEN with_text(r, j, item_text(j, row_data[j]))
                     ELSE r,
                     row_data, j + 1)

RECURSIVE paste_lines(_, _, _, _)
paste_lines(w, lines, current_row, i) ==
    IF i > Len(lines) THEN w
    ELSE LET row_index == current_row + (i - 1)
             w1 == IF row_index >= rowCount(w) - 1 THEN add_empty_row(w)
                   ELSE w
             w2 == IF row_index < rowCount(w1)
                   THEN [w1 EXCEPT !.rows[row_index + 1] =
                                       paste_cells(@, lines[i], 1)]
                   ELSE w1
         IN  paste_lines(w2, lines, current_row, i + 1)

RECURSIVE paste_update(_, _, _, _)
paste_update(w, n, current_row, i) ==
    IF i > n THEN w
    ELSE LET row_index == current_row + (i - 1)
         IN  IF row_index < rowCount(w)
             THEN LET w1 == get_transaction_from_row(w, row_index)
                      w2 == IF Contains(w1.new_rows, row_index)
                            THEN highlight_new_row(w1, row_index) ELSE w1
                      w3 == IF w2.rows[row_index + 1].obj.id # NoneId
                               /\ ~Contains(w2.new_rows, row_index)
                            THEN changes_set(w2, row_index) ELSE w2
                  IN  paste_update(w3, n, current_row, i + 1)
             ELSE paste_update(w, n, current_row, i + 1)

paste_rows(w, lines, current_row) ==
    IF lines = <<>> THEN w
    ELSE paste_update(paste_lines(w, lines, current_row, 1), Len(lines),
                      current_row, 1)

paste_from_clipboard(w, text, current_row) ==
    IF text = <<>> THEN w
    ELSE paste_rows(w, clipboard_rows(text), current_row)

(* ------------------------------- inputs ------------------------------- *)
Stored(id, name, date) ==
    [id |-> id, name |-> name, description |-> "d", account_id |-> 1,
     transaction_type |-> "Expense", category_id |-> 1,
     sub_category_id |-> 1, date |-> date, value |-> "1.5"]

(* the transactions table when the window opens                           *)
InitialTables ==
    { <<>>,
      <<Stored(1, <<"p">>, "2024-01-15")>>,
      <<Stored(1, <<"p">>, "2024-01-15"), Stored(2, <<"q">>, "2024-06-01")>> }

NameInputs == { <<"a">>, <<>> }
DescriptionInputs == { "x" }
AccountInputs == { 1 }
TypeInputs == { "Expense", "Income" }
ValueInputs == { "2.5" }
DateInputs == { "2024-01-15" }
(* the items of the category editor: Category.get_by_type(type or         *)
(* "Expense"); an empty combo box yields "" and None                      *)
CategoryInputs(r) ==
    LET items == get_by_type(IF r.type # "" THEN r.type ELSE "Expense")
    IN  IF items = <<>> THEN {NoneId} ELSE Range(items)
(* the items of the subcategory editor: "" and the subcategories          *)
SubCategoryInputs(r) ==
    {NoneId} \cup (IF Data(r.category_id) # NoneId
                   THEN Range(get_by_category(Data(r.category_id))) ELSE {})
PasteInputs ==
    { <<"a">>,
      <<"a", TAB, "x", TAB, "Cash", TAB, "Income">>,
      <<"a", NL, "b", TAB, "x", NL>>,
      <<"a", TAB, "x", TAB, "Cash", TAB, "Expense", TAB, "2.5", TAB, "Food",
        TAB, "Lunch", TAB, "2024-06-01", TAB, "z">> }

(* ------------------------------- Init --------------------------------- *)
TransactionGrid(table) ==
    [rows |-> <<>>, new_rows |-> <<>>, modified_rows |-> <<>>,
     error_rows |-> <<>>, error_fields |-> {}, changes |-> <<>>,
     timers |-> NoTimers, undo_stack |-> <<>>, redo_stack |-> <<>>,
     db |-> table, next_id |-> Len(table) + 1, locked |-> FALSE,
     crashed |-> FALSE, result |-> "none", emitted |-> <<>>, writes |-> <<>>]

(* TransactionsScreen.refresh(): reload the grid from the record store   *)
refresh(w) == load_transactions(w, get_transactions_with_details(w))

(* the user types a row into the add row (the last row): the cells of     *)
(* `entry' are committed through their delegates, in column order         *)
enter_name(w, row, entry) ==
    IF COL_NAME \in entry
    THEN LineEdit_setModelData(w, row, COL_NAME, <<"a">>) ELSE w
enter_account(w, row, entry) ==
    IF COL_ACCOUNT \in entry
    THEN AccountDelegate_setModelData(w, row, 1) ELSE w
enter_type(w, row, entry) ==
    IF COL_TYPE \in entry
    THEN TransactionTypeDelegate_setModelData(w, row, "Expense") ELSE w
enter_date(w, row, entry) ==
    IF COL_DATE \in entry
    THEN DateDelegate_setModelData(w, row, "2024-01-15") ELSE w

enter_cells(w, row, entry) ==
    enter_date(
        enter_type(enter_account(enter_name(w, row, entry), row, entry),
                   row, entry),
        row, entry)

enter_row(w, entry) == enter_cells(w, rowCount(w) - 1, entry)

RECURSIVE enter_rows(_, _, _)
enter_rows(w, entries, k) ==
    IF k > Len(entries) THEN w
    ELSE enter_rows(enter_row(w, entries[k]), entries, k + 1)

(* the rows typed before the first step: complete; without an account;    *)
(* without a name (the cell keeps the "+") and without a type             *)
EntryInputs ==
    { {COL_NAME, COL_ACCOUNT, COL_TYPE, COL_DATE},
      {COL_NAME, COL_TYPE, COL_DATE},
      {COL_ACCOUNT, COL_DATE} }
Sessions ==
    UNION { [1..n -> EntryInputs] : n \in 0..(MaxRows - 1) }

(* TransactionsScreen.__init__ builds the grid and calls refresh(); the   *)
(* session then starts with the user typing zero or more rows, and the    *)
(* callbacks deferred meanwhile have fired (they found nothing to change) *)
Start(w) ==
    /\ Len(w.rows) <= MaxRows
    /\ rows = w.rows
    /\ new_rows = w.new_rows
    /\ modified_rows = w.modified_rows
    /\ error_rows = w.error_rows
    /\ error_fields = w.error_fields
    /\ changes = w.changes
    /\ timers = NoTimers
    /\ undo_stack = w.undo_stack
    /\ redo_stack = w.redo_stack
    /\ db = w.db
    /\ next_id = w.next_id
    /\ locked = FALSE
    /\ crashed = FALSE
    /\ steps = 0
    /\ edits = 0
    /\ lastOp = "init"
    /\ result = "none"
    /\ emitted = <<>>
    /\ writes = <<>>
    /\ saved = FALSE
    /\ retry = {}
    /\ edited = NoEdit
    /\ undone = NoUndo
    /\ clipboard = NoClipboard
    /\ placeholders = {}

Init ==
    \E table \in InitialTables, entries \in Sessions :
        Start(enter_rows(refresh(TransactionGrid(table)), entries, 1))

(* ------------------------------ actions ------------------------------- *)
Ready == ~crashed /\ steps < MaxSteps
RowIndexes == 0..(Len(rows) - 1)
Bounded(w, op) ==
    Len(w.rows) <= MaxRows /\ Commit(w, op) /\ steps' = steps + 1
Did(w, op) ==
    /\ Bounded(w, op) /\ edits' = edits /\ retry' = {} /\ edited' = NoEdit
    /\ undone' = IF op = "undo" /\ undo_stack # <<>>
                 THEN [valid |-> TRUE, db |-> db]
                 ELSE NoUndo

Step(w, op) ==
    Did(w, op) /\ clipboard' = NoClipboard /\ placeholders' = placeholders

(* a commit that changes no cell emits no itemChanged: nothing runs       *)
Edit(w, row) ==
    /\ edits < MaxEdits
    /\ w.rows # rows
    /\ Bounded(w, "edit")
    /\ edits' = edits + 1
    /\ retry' = retry \cap {row}
    /\ undone' = NoUndo
    /\ clipboard' = NoClipboard
    /\ placeholders' = placeholders

EditName ==
    /\ Ready
    /\ \E row \in RowIndexes, text \in NameInputs :
          /\ Edit(LineEdit_setModelData(World, row, COL_NAME, text), row)
          /\ edited' = <<row, COL_NAME>>

EditDescription ==
    /\ Ready
    /\ \E row \in RowIndexes, text \in DescriptionInputs :
          /\ Edit(LineEdit_setModelData(World, row, COL_DESCRIPTION, text), row)
          /\ edited' = <<row, COL_DESCRIPTION>>

EditAccount ==
    /\ Ready
    /\ \E row \in RowIndexes, account_id \in AccountInputs :
          /\ Edit(AccountDelegate_setModelData(World, row, account_id), row)
          /\ edited' = <<row, COL_ACCOUNT>>

EditType ==
    /\ Ready
    /\ \E row \in RowIndexes, value \in TypeInputs :
          /\ Edit(TransactionTypeDelegate_setModelData(World, row, value), row)
          /\ edited' = <<row, COL_TYPE>>

EditValue ==
    /\ Ready
    /\ \E row \in RowIndexes, value \in ValueInputs :
          /\ Edit(CurrencyDelegate_setModelData(World, row, value), row)
          /\ edited' = <<row, COL_VALUE>>

EditCategory ==
    /\ Ready
    /\ \E row \in RowIndexes :
          \E category_id \in CategoryInputs(rows[row + 1]) :
              /\ Edit(CategoryDelegate_setModelData(World, row, category_id), row)
              /\ edited' = <<row, COL_CATEGORY>>

EditSubCategory ==
    /\ Ready
    /\ \E row \in RowIndexes :
          \E subcategory_id \in SubCategoryInputs(rows[row + 1]) :
              /\ Edit(SubCategoryDelegate_setModelData(World, row,
                                                       subcategory_id), row)
              /\ edited' = <<row, COL_SUBCATEGORY>>

EditDate ==
    /\ Ready
    /\ \E row \in RowIndexes, value \in DateInputs :
          /\ Edit(DateDelegate_setModelData(World, row, value), row)
          /\ edited' = <<row, COL_DATE>>

Paste ==
    /\ Ready
    /\ \E text \in PasteInputs, current_row \in RowIndexes :
          /\ Did(paste_from_clipboard(World, text, current_row), "paste")
          /\ clipboard' = [text |-> text, rows |-> {}, at |-> current_row]
          /\ placeholders' = placeholders

(* Delete on a selection of rows, confirmed; the records bound to the   *)
(* add rows among them are remembered                                     *)
Delete ==
    /\ Ready
    /\ \E selected \in (SUBSET RowIndexes) \ {{}} :
          /\ Did(delete_selected_transaction(World, SortedDesc(selected)),
                 "delete")
          /\ clipboard' = NoClipboard
          /\ placeholders' =
                 placeholders \cup
                     {rows[row + 1].obj :
                         row \in {r \in selected : rows[r + 1].marker}}

ClearNewRows == Ready /\ Step(clear_new_rows(World), "clear_new_rows")

(* the rows that are tagged new, in the table and not the add row         *)
UnsavedNew(w) ==
    {row \in Range(w.new_rows) : row < rowCount(w) /\ ~w.rows[row + 1].marker}

(* a save-all step; the new rows it tagged error are remembered           *)
Save(w) ==
    /\ Bounded(w, "save_all_changes")
    /\ edits' = edits
    /\ retry' = {row \in UnsavedNew(World) :
                     \E k \in 1..Len(w.emitted) : w.emitted[k][1] = row}
    /\ edited' = NoEdit
    /\ undone' = NoUndo
    /\ clipboard' = NoClipboard
    /\ placeholders' = placeholders

SaveAll == Ready /\ Save(save_all_changes(World))

Undo == Ready /\ Step(undo(World), "undo")

Redo == Ready /\ Step(redo(World), "redo")

Refresh == Ready /\ Step(refresh(World), "refresh")

NewTransaction == Ready /\ Step(add_empty_row(World), "add_empty_row")

(* a deferred highlight_new_row(row) fires                                *)
Timer ==
    /\ ~crashed
    /\ \E row \in DOMAIN timers :
          /\ timers[row] > 0
          /\ Commit(highlight_new_row(
                        [World EXCEPT !.timers[row] = @ - 1], row), "timer")
          /\ steps' = steps
          /\ edits' = edits
          /\ retry' = retry
          /\ edited' = NoEdit
          /\ undone' = undone
          /\ clipboard' = NoClipboard
          /\ placeholders' = placeholders

Next ==
    \/ EditName \/ EditDescription \/ EditAccount \/ EditType \/ EditValue
    \/ EditCategory \/ EditSubCategory \/ EditDate
    \/ Paste \/ Delete \/ ClearNewRows \/ SaveAll \/ Undo \/ Redo
    \/ Refresh \/ NewTransaction \/ Timer

Spec == Init /\ [][Next]_vars

(* ---------------- the same program beside a busy database ------------- *)
(* another connection takes the write lock of the database file: from     *)
(* then on sqlite3 raises OperationalError on every write, which          *)
(* execute_query rolls back and re-raises                                 *)
Lock ==
    /\ ~crashed
    /\ ~locked
    /\ locked' = TRUE
    /\ UNCHANGED <<rows, new_rows, modified_rows, error_rows, error_fields,
                   changes, timers, undo_stack, redo_stack, db, next_id,
                   crashed, steps, edits, lastOp, result, emitted, writes,
                   saved, retry, edited, undone, clipboard,
                   placeholders>>

NextLocked == Next \/ Lock

SpecLocked == Init /\ [][NextLocked]_vars

(* ------------------- validate_transaction on its own ------------------ *)
(* the records validate_transaction may be given: the object of a row as  *)
(* get_transaction_from_row leaves it                                     *)
ValidateInputs ==
    [id : {NoneId}, name : {<<>>, <<" ">>, <<"a">>, <<" ", "a">>, PLUS},
     description : {""}, account_id : {NoneId, 1},
     transaction_type : {"", "Expense"}, category_id : {NoneId, 1},
     sub_category_id : {NoneId, 1}, date : {"", "2024-01-15"},
     value : {"0.0"}]

InitValidate ==
    \E t \in ValidateInputs :
        /\ rows = <<[unsaved_row(t) EXCEPT !.obj = t]>>
        /\ new_rows = <<0>>
        /\ modified_rows = <<>>
        /\ error_rows = <<>>
        /\ error_fields = {}
        /\ changes = <<>>
        /\ timers = NoTimers
        /\ undo_stack = <<>>
        /\ redo_stack = <<>>
        /\ db = <<>>
        /\ next_id = 1
        /\ locked = FALSE
        /\ crashed = FALSE
        /\ steps = 0
        /\ edits = 0
        /\ lastOp = "init"
        /\ result = "none"
        /\ emitted = <<>>
        /\ writes = <<>>
        /\ saved = FALSE
        /\ retry = {}
        /\ edited = NoEdit
        /\ undone = NoUndo
        /\ clipboard = NoClipboard
        /\ placeholders = {}

(* validation_result = self.validate_transaction(transaction)             *)
Validate ==
    /\ lastOp = "init"
    /\ lastOp' = "validate_transaction"
    /\ result' = validate_transaction(rows[1].obj)
    /\ UNCHANGED <<rows, new_rows, modified_rows, error_rows, error_fields,
                   changes, timers, undo_stack, redo_stack, db, next_id,
                   locked, crashed, steps, edits, emitted, writes, saved,
                   retry, edited, undone, clipboard, placeholders>>

NextValidate == Validate

SpecValidate == InitValidate /\ [][NextValidate]_vars

(* ------------------- copying rows and pasting them back --------------- *)
(* Grids loaded from a store whose names and descriptions hold ordinary   *)
(* characters, a quote, or nothing.                                       *)
ClipboardNames == { <<"a">>, <<QUOTE>>, <<"a", QUOTE>>, <<>> }

ClipboardTables ==
    LET Records(id) ==
            {[Stored(id, name, "2024-01-15") EXCEPT
                 !.description = description] :
                 name \in ClipboardNames, description \in {"", "x"}}
    IN  {<<r>> : r \in Records(1)}
        \cup {<<r, q>> : r \in Records(1), q \in Records(2)}

InitClipboard ==
    \E table \in ClipboardTables : Start(refresh(TransactionGrid(table)))

(* Ctrl+C on a selection of rows                                          *)
Copy ==
    /\ Ready
    /\ \E selected \in (SUBSET RowIndexes) \ {{}} :
          /\ Did(World, "copy")
          /\ clipboard' =
                 [text |-> copy_selection_to_clipboard(World, selected),
                  rows |-> selected, at |-> -1]
          /\ placeholders' = placeholders

(* Ctrl+V of the copied text with the first copied row current            *)
PasteCopied ==
    /\ Ready
    /\ clipboard.rows # {}
    /\ LET current_row == CHOOSE row \in clipboard.rows :
                              \A other \in clipboard.rows : row <= other
       IN  /\ Did(paste_from_clipboard(World, clipboard.text, current_row),
                  "paste")
           /\ clipboard' = [clipboard EXCEPT !.at = current_row]
           /\ placeholders' = placeholders

NextClipboard == Copy \/ PasteCopied

SpecClipboard == InitClipboard /\ [][NextClipboard]_vars


(* ------------------------------ claims -------------------------------- *)
AddRows == {i \in 1..Len(rows) : rows[i].marker}

(* C1: in every reachable state the grid holds exactly one row carrying   *)
(* the add_row_marker, and that row is the last row.                      *)
C1_OneAddRowLast ==
    ~crashed => (Cardinality(AddRows) = 1 /\ AddRows = {Len(rows)})

(* the record a row stands for: its cells, read as get_transaction_from_  *)
(* row reads them, without the "NEW: " decoration of the name cell        *)
UserRecord(r) ==
    [ObjFromCells(r) EXCEPT
        !.name = IF startswith(@, NEW_PREFIX) THEN Tail(@) ELSE @]

(* the four rules of the specification, stated on the fields              *)
Valid(t) ==
    /\ ~IsBlank(t.name)
    /\ t.account_id # NoneId
    /\ t.transaction_type # ""
    /\ t.date # ""

Writes(log) == {k \in 1..Len(log) : log[k].op \in {"insert", "update"}}
Inserts(log) ==
    {k \in 1..Len(log) : log[k].op = "insert" /\ log[k].outcome = "changed"}

(* the step is a save_all_changes call that returned                      *)
SaveAllReturned == lastOp' = "save_all_changes" /\ ~crashed'

(* the never persisted new rows that pass / fail validation               *)
ValidNew ==
    {row \in UnsavedNew(World) :
        rows[row + 1].obj.id = NoneId /\ Valid(UserRecord(rows[row + 1]))}
FailingNew ==
    {row \in UnsavedNew(World) : ~Valid(UserRecord(rows[row + 1]))}
FailingPending ==
    {i \in 1..Len(changes) : ~Valid(ChangeValue(World, changes[i]))}

(* C2: in every save-all call, each unsaved new row that passes           *)
(* validation is inserted into the record store by that call, wherever    *)
(* the failing rows sit among the new rows.                               *)
C2_ValidNewRowsPersisted ==
    [][SaveAllReturned =>
          /\ Cardinality(Inserts(writes')) >= Cardinality(ValidNew)
          /\ \A row \in ValidNew : \E k \in Inserts(writes') :
                 Fields(writes'[k].rec) = Fields(UserRecord(rows[row + 1]))
      ]_vars

(* C3: a new row that the preceding save-all tagged error and that the    *)
(* user has edited since (and nothing else) so that it passes validation  *)
(* is in the record store after the next save-all, every deferred         *)
(* callback having fired before that call.                                *)
C3_FixedRowPersisted ==
    [][(SaveAllReturned /\ timers = NoTimers) =>
          \A row \in retry :
              (row < Len(rows) /\ Valid(UserRecord(rows[row + 1]))) =>
                  \E i \in 1..Len(db') :
                      Fields(db'[i]) =
                          Fields(to_dict(UserRecord(rows[row + 1])))
      ]_vars

(* C4: when a delete that removed a stored record is followed by undo,    *)
(* the record store holds a record with the field values of the deleted   *)
(* one after the undo.                                                    *)
C4_UndoRestoresDeleted ==
    [][(/\ lastOp = "delete" /\ lastOp' = "undo" /\ ~crashed'
        /\ writes # <<>> /\ undo_stack # <<>>
        /\ writes[Len(writes)].op = "delete"
        /\ writes[Len(writes)].outcome = "changed"
        /\ undo_stack[Len(undo_stack)].id = writes[Len(writes)].rec.id) =>
          \E i \in 1..Len(db') :
              Fields(db'[i]) = Fields(writes[Len(writes)].rec)
      ]_vars

(* the verdict the specification asks for: the message of the first       *)
(* violated rule, in the order name, account, type, date                  *)
FirstViolatedRule(t) ==
    IF IsBlank(t.name) THEN <<FALSE, "Name is required">>
    ELSE IF t.account_id = NoneId THEN <<FALSE, "Account is required">>
    ELSE IF t.transaction_type = "" THEN <<FALSE, "Type is required">>
    ELSE IF t.date = "" THEN <<FALSE, "Date is required">>
    ELSE <<TRUE, "">>

(* C5: validate_transaction answers valid exactly for the records with a  *)
(* non-blank name, an account, a type and a date, otherwise with the one  *)
(* message of the first violated rule; the category and the subcategory   *)
(* of the record do not change the answer.                                *)
C5_ValidateFirstViolatedRule ==
    lastOp = "validate_transaction" =>
        /\ result = FirstViolatedRule(rows[1].obj)
        /\ result[1] <=> Valid(rows[1].obj)
        /\ \A c \in {NoneId, 1, 2}, sc \in {NoneId, 1} :
               validate_transaction(
                   [rows[1].obj EXCEPT !.category_id = c,
                                       !.sub_category_id = sc]) = result

(* a record without name, account and type is refused for its name only  *)
C5_Witness ==
    /\ lastOp = "validate_transaction"
    /\ rows[1].obj.name = <<" ">>
    /\ rows[1].obj.account_id = NoneId
    /\ rows[1].obj.transaction_type = ""
    /\ result = <<FALSE, NameRequired>>

(* C6: every insert or update a save-all call issues carries a record     *)
(* with a non-blank name, an account, a type and a date.                  *)
C6_OnlyValidWritten ==
    lastOp = "save_all_changes" =>
        \A k \in Writes(writes) : Valid(writes[k].rec)

(* a save-all call that wrote one row and refused another                 *)
C6_Witness ==
    /\ lastOp = "save_all_changes"
    /\ Writes(writes) # {}
    /\ emitted # <<>>

(* C7: save-all returns failure exactly when a pending record or an       *)
(* unsaved new row fails validation, and then every failing new row is    *)
(* tagged error and occurs exactly once in the emitted list.              *)
C7_EveryFailureReported ==
    [][SaveAllReturned =>
          /\ (result' = "False") <=>
                 (FailingNew # {} \/ FailingPending # {})
          /\ \A row \in FailingNew :
                 /\ Contains(error_rows', row)
                 /\ Cardinality({k \in 1..Len(emitted') :
                                    emitted'[k][1] = row}) = 1
      ]_vars

(* C8: a save-all call that follows a save-all call that returned True,   *)
(* with no user operation in between, issues no insert or update and      *)
(* returns True.                                                          *)
C8_SecondSaveWritesNothing ==
    [][(saved /\ SaveAllReturned) =>
          (Writes(writes') = {} /\ result' = "True")
      ]_vars

(* C9: a save-all call in which the record store raised on a write still  *)
(* returns a boolean and reports a row in the emitted list.               *)
C9_RejectionCollected ==
    (/\ lastOp = "save_all_changes"
     /\ \E k \in Writes(writes) : writes[k].outcome = "raised") =>
        (result \in {"True", "False"} /\ emitted # <<>>)

(* the rows load_transactions shows for the records of the store, in the  *)
(* order of the query                                                     *)
StoreRows ==
    [i \in 1..Len(ByDate(db, 1)) |->
        populate_row(from_db_row(ByDate(db, 1)[i]))]

(* C10: a save-all call that found no validation error returned True,     *)
(* and after a call that returned True no row is tagged error or          *)
(* modified, no error field is recorded, the pending changes are empty    *)
(* and the rows are the rows of the stored records, in the order of the   *)
(* store, and then the one add row.                                       *)
C10_SuccessLeavesCleanGrid ==
    (lastOp = "save_all_changes" /\ ~crashed) =>
        /\ emitted = <<>> => result = "True"
        /\ result = "True" =>
               /\ error_rows = <<>>
               /\ error_fields = {}
               /\ modified_rows = <<>>
               /\ changes = <<>>
               /\ rows = StoreRows \o <<empty_row>>

(* a successful save-all call that wrote a row into a store that then     *)
(* holds two records                                                      *)
C10_Witness ==
    /\ lastOp = "save_all_changes"
    /\ result = "True"
    /\ Inserts(writes) # {}
    /\ Len(db) >= 2
    /\ Len(rows) = Len(db) + 1

(* C11: after a save-all call that returned False, every pending record   *)
(* that failed validation in that call is still in the pending changes.   *)
C11_FailedPendingKept ==
    [][(SaveAllReturned /\ result' = "False") =>
          \A i \in FailingPending :
              \E j \in 1..Len(changes') : changes'[j].key = changes[i].key
      ]_vars

(* the step called load_transactions: a refresh, an undo or a redo that   *)
(* found its stack non-empty, or a save-all call that returned True       *)
Loaded ==
    /\ ~crashed'
    /\ \/ lastOp' = "refresh"
       \/ lastOp' = "undo" /\ undo_stack # <<>>
       \/ lastOp' = "redo" /\ redo_stack # <<>>
       \/ lastOp' = "save_all_changes" /\ result' = "True"

(* C12: in the state a load_transactions call leaves, exactly one row     *)
(* carries the add_row_marker and it is the last row.                     *)
C12_LoadLeavesOneAddRow ==
    [][Loaded => (Cardinality(AddRows') = 1 /\ AddRows' = {Len(rows')})]_vars

(* a refresh that kept an unsaved new row after the stored records        *)
C12_Witness ==
    /\ lastOp = "refresh"
    /\ db # <<>>
    /\ new_rows # <<>>
    /\ Len(rows) = Len(db) + Len(new_rows) + 1

(* the step is one load_transactions call on the grid as it stands: a     *)
(* refresh, or the reload of an undo or a redo                            *)
Reloaded ==
    /\ ~crashed'
    /\ \/ lastOp' = "refresh"
       \/ lastOp' = "undo" /\ undo_stack # <<>>
       \/ lastOp' = "redo" /\ redo_stack # <<>>

(* the rows tagged new that hold user-entered data, in the order of the   *)
(* grid                                                                   *)
KeptRows ==
    LET kept == {row \in UnsavedNew(World) :
                    rows[row + 1].name \notin {<<>>, PLUS}}
        down == SortedDesc(kept)
    IN  [k \in 1..Len(down) |-> rows[down[Len(down) + 1 - k] + 1]]

(* C13: load_transactions leaves one row per stored record in the order   *)
(* of the query, then the rows that were tagged new and held user-entered *)
(* data, in their order, with their field values and still tagged new,    *)
(* then one add row.                                                      *)
C13_LoadKeepsUnsavedRows ==
    [][Reloaded =>
          LET n == Len(db')
              m == Len(KeptRows)
          IN  /\ Len(rows') = n + m + 1
              /\ SubSeq(rows', 1, n) = StoreRows'
              /\ \A k \in 1..m :
                     /\ ~rows'[n + k].marker
                     /\ ObjFromCells(rows'[n + k]) = ObjFromCells(KeptRows[k])
                     /\ Contains(new_rows', n + k - 1)
              /\ rows'[n + m + 1] = empty_row
      ]_vars

(* C14: in every reachable state no two rows of the grid are bound to a   *)
(* record with the same non-null identity.                                *)
C14_RecordShownOnce ==
    ~crashed =>
        \A i, j \in 1..Len(rows) :
            (i # j /\ rows[i].obj.id # NoneId) => rows[i].obj.id # rows[j].obj.id

(* C15: in every reachable state no row index is in both new_rows and     *)
(* modified_rows.                                                         *)
C15_NewOrModified ==
    ~crashed => Range(new_rows) \cap Range(modified_rows) = {}

(* the row's record was written by the step with effect                   *)
PersistedInStep(row) ==
    /\ row < Len(rows)
    /\ \E k \in Writes(writes') :
           /\ writes'[k].outcome = "changed"
           /\ Fields(writes'[k].rec) = Fields(UserRecord(rows[row + 1]))

(* C16: a row tagged error (in error_rows, with its error fields) loses   *)
(* the tag only in a step that is a user edit or a save-all call that     *)
(* persisted that row's record.                                           *)
C16_ErrorTagKept ==
    [][\A row \in Range(error_rows) :
          (~crashed' /\ row \notin Range(error_rows')) =>
              \/ lastOp' = "edit"
              \/ lastOp' = "save_all_changes" /\ PersistedInStep(row)
      ]_vars

(* C17: a user edit of a field of a new row that the last save-all call   *)
(* tagged error leaves the row tagged new and not tagged error.           *)
C17_EditClearsErrorTag ==
    [][(lastOp' = "edit" /\ ~crashed') =>
          \A row \in retry' :
              /\ Contains(new_rows', row)
              /\ ~Contains(error_rows', row)
              /\ \A f \in error_fields' : f[1] # row
      ]_vars

(* The category cell (resp. subcategory cell) of a grid row shows nothing *)
(* and holds no reference.                                                *)
CategoryEmpty(r) == r.category = "" /\ r.category_id \in {NoneId, Unset}

SubCategoryEmpty(r) ==
    r.subcategory = "" /\ r.sub_category_id \in {NoneId, Unset}

(* The step committed an editor on column col.                            *)
Committed(col) == lastOp' = "edit" /\ ~crashed' /\ edited'[2] = col

(* C18: committing the type editor on a row leaves the row's category and *)
(* subcategory empty and unset whatever they were, committing the         *)
(* category editor leaves its subcategory empty and unset, and the cells  *)
(* of every other row stay as they were.                                  *)
C18_CommitClearsDependents ==
    [][LET r == rows'[edited'[1] + 1]
           others == \A i \in 1..Len(rows) :
                         i # edited'[1] + 1 => rows'[i] = rows[i]
       IN  /\ Committed(COL_TYPE) =>
                 CategoryEmpty(r) /\ SubCategoryEmpty(r) /\ others
           /\ Committed(COL_CATEGORY) => SubCategoryEmpty(r) /\ others
      ]_vars

C18_Witness ==
    /\ lastOp = "edit" /\ ~crashed /\ edited[2] = COL_TYPE /\ edits = 1
    /\ Len(rows) > 2
    /\ LET r == rows[edited[1] + 1]
       IN  /\ r.type = "Income"
           /\ CategoryEmpty(r) /\ SubCategoryEmpty(r)
           /\ \E k \in 1..Len(db) :
                  /\ db[k].id = r.obj.id
                  /\ db[k].category_id # NoneId
                  /\ db[k].sub_category_id # NoneId

(* C19: every edit or paste that changes the type shown in a row clears   *)
(* that row's category and subcategory in the same step, and every one    *)
(* that changes its category clears its subcategory.                      *)
C19_TypeChangeClearsCategory ==
    [][(lastOp' \in {"edit", "paste"} /\ ~crashed') =>
          \A i \in 1..Len(rows) :
              /\ rows'[i].type # rows[i].type =>
                    CategoryEmpty(rows'[i]) /\ SubCategoryEmpty(rows'[i])
              /\ rows'[i].category_id # rows[i].category_id =>
                    SubCategoryEmpty(rows'[i]) ]_vars

(* The field values of the records a store holds.                         *)
StoredFields(table) == {Fields(table[k]) : k \in 1..Len(table)}

(* C20: a redo that follows an undo performed with a non-empty undo stack *)
(* leaves the store with as many records as before the undo, and with the *)
(* same field values.                                                     *)
C20_UndoRedoKeepsStore ==
    [][(undone.valid /\ lastOp' = "redo" /\ ~crashed') =>
          /\ Len(db') = Len(undone.db)
          /\ StoredFields(db') = StoredFields(undone.db) ]_vars

C20_Witness ==
    /\ lastOp = "redo" /\ ~crashed
    /\ db # <<>>
    /\ undo_stack # <<>>
    /\ undo_stack[Len(undo_stack)].id # NoneId
    /\ \A k \in 1..Len(db) : db[k].id # undo_stack[Len(undo_stack)].id

(* C21: a delete pushes on the undo stack only records that have an       *)
(* identity, and an undo never inserts a record into the store.           *)
C21_UndoOnlyForPersisted ==
    [][/\ lastOp' = "delete" =>
             \A k \in (Len(undo_stack) + 1)..Len(undo_stack') :
                 undo_stack'[k].id # NoneId
       /\ lastOp' = "undo" => Inserts(writes') = {} ]_vars

(* The eight visible cells of a grid row.                                 *)
Visible(r) == [col \in COL_NAME..COL_DATE |-> text_of(r, col)]

(* C22: pasting the text just copied from a selection, with the first     *)
(* selected row current, leaves the visible cells of every selected row   *)
(* as they were (no cell of the grids considered holds a tab or newline). *)
C22_CopyPasteRoundTrip ==
    [][(lastOp = "copy" /\ lastOp' = "paste" /\ ~crashed') =>
          \A row \in clipboard.rows :
              Visible(rows'[row + 1]) = Visible(rows[row + 1]) ]_vars

(* The cells of a row joined by tabs and ended by a newline.              *)
Line(r) ==
    join([col \in COL_NAME..COL_DATE |-> item_chars(r, col)], TAB) \o <<NL>>

RECURSIVE Lines(_, _)
Lines(selected, row) ==
    IF row >= Len(rows) THEN <<>>
    ELSE (IF row \in selected THEN Line(rows[row + 1]) ELSE <<>>)
         \o Lines(selected, row + 1)

(* C25: the text a copy puts on the clipboard is, for the selected rows   *)
(* in ascending order, the eight visible cells of the row joined by tabs  *)
(* and ended by a newline.                                                *)
C25_CopyEmitsCellsJoinedByTabs ==
    lastOp = "copy" => clipboard.text = Lines(clipboard.rows, 0)

(* The rows a paste step wrote: one per parsed line, from the current row.*)
Written ==
    {row \in 0..(Len(rows') - 1) :
        /\ row >= clipboard'.at
        /\ row < clipboard'.at + Len(clipboard_rows(clipboard'.text))}

(* C23: after a paste every written row without identity is in new_rows  *)
(* and no longer marked as add row, and every written row of a persisted  *)
(* record is in modified_rows with its record in the pending changes.     *)
C23_PasteTagsRows ==
    [][(lastOp' = "paste" /\ ~crashed') =>
          \A row \in Written :
              IF rows'[row + 1].obj.id = NoneId
              THEN Contains(new_rows', row) /\ ~rows'[row + 1].marker
              ELSE /\ Contains(modified_rows', row)
                   /\ \E k \in 1..Len(changes') :
                          changes'[k].key = rows'[row + 1].obj.id ]_vars

(* The row a paste step found at index `row': a row of the grid, or the   *)
(* empty row the paste appended there.                                    *)
Prior(row) == IF row < Len(rows) THEN rows[row + 1] ELSE empty_row

(* The text of a name cell with the display prefix of new rows removed.   *)
Untagged(col, text) ==
    IF col = COL_NAME /\ startswith(text, NEW_PREFIX) THEN Tail(text)
    ELSE text

(* C24: a pasted line of k cells sets the first min(k, 8) visible columns *)
(* of its row to the pasted cells, in order from the name column, and     *)
(* leaves the other columns of the row, the identity of its record, and   *)
(* every row outside the pasted range as they were.                       *)
C24_PasteWritesGivenCellsOnly ==
    [][(lastOp' = "paste" /\ ~crashed') =>
          LET lines == clipboard_rows(clipboard'.text)
          IN  /\ \A row \in Written :
                    LET cells == lines[row - clipboard'.at + 1]
                        r == rows'[row + 1]
                    IN  /\ r.obj.id = Prior(row).obj.id
                        /\ r.account_id = Prior(row).account_id
                        /\ r.category_id = Prior(row).category_id
                        /\ r.sub_category_id = Prior(row).sub_category_id
                        /\ \A col \in COL_NAME..COL_DATE :
                              IF col <= Len(cells)
                              THEN Untagged(col, text_of(r, col))
                                   = Untagged(col, item_text(col, cells[col]))
                              ELSE text_of(r, col) = text_of(Prior(row), col)
              /\ \A row \in 0..(Len(rows) - 1) :
                    row \notin Written => rows'[row + 1] = rows[row + 1]
      ]_vars

C24_Witness ==
    /\ lastOp = "paste" /\ ~crashed
    /\ Len(clipboard_rows(clipboard.text)) = 1
    /\ Len(clipboard_rows(clipboard.text)[1]) = 4
    /\ Len(rows) > 2
    /\ clipboard.at = 0
    /\ rows[1].obj.id # NoneId
    /\ rows[1].type = "Income" /\ rows[1].value = "1.5"
    /\ rows[1].date = "2024-01-15"

(* The columns of a row whose cell the step changed (text or reference): *)
(* the items on_item_changed ran for.                                     *)
ChangedCols(row) ==
    {col \in COL_NAME..COL_DATE :
        \/ Untagged(col, text_of(rows'[row + 1], col))
              # Untagged(col, text_of(rows[row + 1], col))
        \/ /\ col \in {COL_ACCOUNT, COL_CATEGORY, COL_SUBCATEGORY}
           /\ data_of(rows'[row + 1], col) # data_of(rows[row + 1], col)}

(* C26: an edit that changes a cell of an add row whose text is then      *)
(* neither blank nor "+" makes the row an unsaved new row (marker         *)
(* removed, index in new_rows) and, when no marked row remains, appends a *)
(* fresh add row as last row; an edit after which the committed cell and  *)
(* every changed cell are blank or "+" leaves the row the add row and     *)
(* new_rows as it was.                                                    *)
C26_EditOfAddRow ==
    [][(lastOp' = "edit" /\ ~crashed' /\ rows[edited'[1] + 1].marker) =>
          LET row == edited'[1]
              r == rows'[row + 1]
              typed(col) == Typed(col, Untagged(col, text_of(r, col)))
          IN  /\ (\E col \in ChangedCols(row) : typed(col)) =>
                    /\ ~r.marker
                    /\ Contains(new_rows', row)
                    /\ AddRows' # {}
                    /\ AddRows \ {row + 1} = {} =>
                          /\ Len(rows') = Len(rows) + 1
                          /\ rows'[Len(rows')] = empty_row
              /\ (\A col \in ChangedCols(row) \cup {edited'[2]} :
                       ~typed(col)) =>
                    r.marker /\ new_rows' = new_rows ]_vars

(* the entries typed at the start set a name, an account, a type or a     *)
(* date: a row without any of them was an add row before this edit        *)
C26_Witness ==
    /\ lastOp = "edit" /\ ~crashed
    /\ edited[2] = COL_DESCRIPTION
    /\ Len(rows) = edited[1] + 2
    /\ LET r == rows[edited[1] + 1]
       IN  /\ ~r.marker /\ r.name = PLUS /\ r.description = "x"
           /\ r.account = "" /\ r.type = "" /\ r.date = ""
    /\ Contains(new_rows, edited[1])
    /\ rows[Len(rows)] = empty_row

(* The record a row shows: its cells, the name without the display        *)
(* prefix of modified or new rows.                                        *)
ShownRecord(r) ==
    LET t == ObjFromCells(r)
    IN  IF startswith(t.name, MODIFIED_PREFIX) \/ startswith(t.name, NEW_PREFIX)
        THEN [t EXCEPT !.name = Tail(@)]
        ELSE t

(* C27: an edit of a row that shows a record with an identity and is not  *)
(* in new_rows puts the row in modified_rows and leaves exactly one       *)
(* pending change under that identity, holding the values the row shows.  *)
C27_EditRegistersChange ==
    [][(/\ lastOp' = "edit" /\ ~crashed'
        /\ rows[edited'[1] + 1].obj.id # NoneId
        /\ ~Contains(new_rows, edited'[1])) =>
          LET row == edited'[1]
              id == rows[row + 1].obj.id
              pending == {k \in 1..Len(changes') : changes'[k].key = id}
          IN  /\ Contains(modified_rows', row)
              /\ Cardinality(pending) = 1
              /\ \A k \in pending :
                    Fields(ChangeValue([rows |-> rows'], changes'[k]))
                      = Fields(ShownRecord(rows'[row + 1])) ]_vars

(* The tags of a row index: membership in the three tag lists and the     *)
(* fields marked in error.                                                *)
Tags(row, new, modified, errors, fields) ==
    <<Contains(new, row), Contains(modified, row), Contains(errors, row),
      {f \in fields : f[1] = row}>>

(* The pending changes kept under identities other than `id'.             *)
OtherChanges(w, pending, id) ==
    {<<pending[k].key, ChangeValue(w, pending[k])>> :
        k \in {i \in 1..Len(pending) : pending[i].key # id}}

(* C28: an edit of a cell of row r changes the tags and the pending       *)
(* change of row r only: every other row keeps its tags, its cells and    *)
(* its record, and the pending changes of other records stay as they are. *)
C28_EditTouchesOneRow ==
    [][(lastOp' = "edit" /\ ~crashed') =>
          LET r == edited'[1]
          IN  /\ \A row \in 0..(Len(rows) - 1) :
                    row # r =>
                      /\ rows'[row + 1] = rows[row + 1]
                      /\ Tags(row, new_rows', modified_rows', error_rows',
                              error_fields')
                           = Tags(row, new_rows, modified_rows, error_rows,
                                  error_fields)
              /\ OtherChanges([rows |-> rows'], changes', rows[r + 1].obj.id)
                   = OtherChanges([rows |-> rows], changes,
                                  rows[r + 1].obj.id)
              /\ Len(rows') \in {Len(rows), Len(rows) + 1}
              /\ Len(rows') > Len(rows) => rows'[Len(rows')] = empty_row
      ]_vars

C28_Witness ==
    /\ lastOp = "edit" /\ ~crashed /\ edits = 2
    /\ Len(rows) > 2
    /\ \E row \in 0..(Len(rows) - 1) :
          /\ row # edited[1]
          /\ Contains(modified_rows, row)
          /\ \E k \in 1..Len(changes) : changes[k].key = rows[row + 1].obj.id
    /\ Contains(modified_rows, edited[1])

(* The rows a save-all call has nothing to save for: not in new_rows and  *)
(* showing no record with a pending change.                               *)
Untouched ==
    {row \in 0..(Len(rows) - 1) :
        /\ ~Contains(new_rows, row)
        /\ \A k \in 1..Len(changes) : changes[k].key # rows[row + 1].obj.id}

(* C29: a save-all that returns False leaves every row it had nothing to  *)
(* save for with the cells and the tags it had before the call.           *)
C29_FailedSaveKeepsOtherRows ==
    [][(SaveAllReturned /\ result' = "False") =>
          \A row \in Untouched :
              /\ row < Len(rows')
              /\ rows'[row + 1] = rows[row + 1]
              /\ Tags(row, new_rows', modified_rows', error_rows',
                      error_fields')
                   = Tags(row, new_rows, modified_rows, error_rows,
                          error_fields) ]_vars

C29_Witness ==
    /\ lastOp = "save_all_changes" /\ ~crashed /\ result = "False"
    /\ error_rows # <<>>
    /\ \E row \in 0..(Len(rows) - 1) :
          /\ rows[row + 1].obj.id # NoneId
          /\ ~Contains(error_rows, row) /\ ~Contains(modified_rows, row)
          /\ ~Contains(new_rows, row)
          /\ ~Contains(error_rows, Len(rows) - 1)
    /\ rows[Len(rows)] = empty_row

(* C30: a deferred callback that fires changes neither the tag lists, nor *)
(* the pending changes, nor any cell, nor the record store.               *)
C30_TimersChangeNoData ==
    [][lastOp' = "timer" =>
          /\ new_rows' = new_rows
          /\ modified_rows' = modified_rows
          /\ error_rows' = error_rows
          /\ error_fields' = error_fields
          /\ changes' = changes
          /\ rows' = rows
          /\ db' = db ]_vars

(* C31: only delete, undo and redo touch the undo and redo stacks: a cell *)
(* edit, the conversion of the add row, paste, clear-new-rows, save-all,  *)
(* a reload and a deferred highlight leave both stacks as they were, and  *)
(* every entry on either stack is the record of a ('delete', record)     *)
(* pair, the only kind of entry delete_selected_transaction appends.      *)
Tracked == {"delete", "undo", "redo"}

DeleteEntries(stack) ==
    \A k \in 1..Len(stack) : DOMAIN stack[k] = DOMAIN NoRec

C31_OnlyDeleteTracked ==
    [][/\ lastOp' \notin Tracked =>
              undo_stack' = undo_stack /\ redo_stack' = redo_stack
       /\ lastOp' = "delete" => redo_stack' = redo_stack
                                /\ Len(undo_stack') >= Len(undo_stack)
                                /\ SubSeq(undo_stack', 1, Len(undo_stack))
                                       = undo_stack
       /\ DeleteEntries(undo_stack') /\ DeleteEntries(redo_stack')]_vars

(* a cell was edited, or the unsaved rows were cleared, while a deleted   *)
(* record was waiting on a stack                                          *)
C31_Witness ==
    /\ lastOp \in {"edit", "clear_new_rows", "save_all_changes"}
    /\ undo_stack # <<>> \/ redo_stack # <<>>
    /\ ~crashed

(* C32: after discard_changes the grid shows one row per stored record,   *)
(* in the order of the query, followed by the add row and nothing else:   *)
(* no row is tagged new, modified or error, no change is pending, and the *)
(* call wrote nothing to the store.                                       *)
C32_DiscardDropsAllChanges ==
    [][(lastOp' = "refresh" /\ ~crashed') =>
          /\ rows' = Append(StoreRows', empty_row)
          /\ new_rows' = <<>>
          /\ modified_rows' = <<>>
          /\ error_rows' = <<>>
          /\ error_fields' = {}
          /\ changes' = <<>>
          /\ writes' = <<>>
          /\ db' = db
      ]_vars

(* the rows of `list' at the indexes in S, in their order                 *)
RowsAt(list, S) ==
    LET down == SortedDesc(S)
    IN  [k \in 1..Len(down) |-> list[down[Len(down) + 1 - k]]]

(* the rows clear_new_rows is to remove: tagged new, not the add row and  *)
(* bound to a record without identity                                     *)
NewToClear ==
    {i \in 1..Len(rows) : /\ Contains(new_rows, i - 1)
                          /\ ~rows[i].marker
                          /\ rows[i].obj.id = NoneId}

(* the rows clear_new_rows is to keep: the add row and the rows bound to  *)
(* a record with an identity                                              *)
NotToClear ==
    {i \in 1..Len(rows) : rows[i].marker \/ rows[i].obj.id # NoneId}

(* C33: clear_new_rows removes the rows that are tagged new when it is    *)
(* called and only rows without identity: afterwards none of the tagged   *)
(* rows is left, every row bound to a record with an identity and the add *)
(* row are still in the grid, in their order, new_rows is empty and       *)
(* nothing was written to the store.                                      *)
C33_ClearRemovesNewRowsOnly ==
    [][(lastOp' = "clear_new_rows" /\ ~crashed') =>
          /\ \E S \in SUBSET (1..Len(rows)) :
                /\ NotToClear \subseteq S
                /\ S \cap NewToClear = {}
                /\ rows' = RowsAt(rows, S)
          /\ new_rows' = <<>>
          /\ writes' = <<>>
          /\ db' = db
      ]_vars

(* C34: no INSERT and no UPDATE is ever issued for the record bound to an *)
(* add row: not by save-all, and not by an undo or a redo after the add   *)
(* row was deleted.                                                       *)
C34_AddRowNeverWritten ==
    [][\A k \in Writes(writes') : writes'[k].rec \notin placeholders']_vars

(* C35: the tag lists denote the rows they were recorded for: every index *)
(* in new_rows is a row of the table that is not the add row and whose    *)
(* record has no identity, every index in modified_rows is a row whose    *)
(* record has an identity, and every (row, column) of error_fields has    *)
(* its row in error_rows.                                                 *)
C35_TagListsAligned ==
    ~crashed =>
        /\ \A k \in 1..Len(new_rows) :
               /\ new_rows[k] < Len(rows)
               /\ ~rows[new_rows[k] + 1].marker
               /\ rows[new_rows[k] + 1].obj.id = NoneId
        /\ \A k \in 1..Len(modified_rows) :
               /\ modified_rows[k] < Len(rows)
               /\ rows[modified_rows[k] + 1].obj.id # NoneId
        /\ \A field \in error_fields : Contains(error_rows, field[1])

(* C36: the name a save-all call writes for a record carries none of the  *)
(* prefixes the grid puts in front of the name cell ("NEW: " on a new     *)
(* row, "MODIFIED: " on a modified row): it is the name the user entered. *)
Decorated(name) ==
    startswith(name, NEW_PREFIX) \/ startswith(name, MODIFIED_PREFIX)

C36_PrefixNeverWritten ==
    [][lastOp' = "save_all_changes" =>
          \A k \in Writes(writes') : ~Decorated(writes'[k].rec.name)]_vars

(* C37: a new row whose name cell still shows the "+" of the add row it   *)
(* was made from has no name: save-all reports "Name is required" for it  *)
(* and writes no record named "+".                                        *)
Unnamed ==
    {row \in UnsavedNew(World) : rows[row + 1].name = PLUS}

C37_PlaceholderNameRejected ==
    [][SaveAllReturned =>
          /\ \A k \in Writes(writes') : writes'[k].rec.name # PLUS
          /\ \A row \in Unnamed :
                 \E k \in 1..Len(emitted') :
                     emitted'[k] = <<row, NameRequired>>
      ]_vars

(* the rows that hold user-entered data not yet in the store: not the add *)
(* row, and bound to a record without identity                            *)
UserRows ==
    {i \in 1..Len(rows) : ~rows[i].marker /\ rows[i].obj.id = NoneId}

(* C38: a save-all call that returns True loses no user-entered row:      *)
(* every row that was not the add row and had no identity before the call *)
(* was inserted into the store by the call, with the values it showed,    *)
(* and is shown after the call bound to a stored record.                  *)
C38_SuccessfulSaveKeepsUserRows ==
    [][(SaveAllReturned /\ result' = "True") =>
          \A i \in UserRows :
              /\ \E k \in Inserts(writes') :
                     Fields(writes'[k].rec) = Fields(UserRecord(rows[i]))
              /\ \E j \in 1..Len(rows') :
                     /\ Exists([db |-> db'], rows'[j].obj.id)
                     /\ rows'[j].name = UserRecord(rows[i]).name
      ]_vars

(* the program state an empty undo or redo has to leave alone             *)
Program ==
    <<rows, new_rows, modified_rows, error_rows, error_fields, changes,
      timers, undo_stack, redo_stack, db, next_id>>

(* undo with nothing to undo, redo with nothing to redo: no stack change, *)
(* no statement sent to the store, no reload                              *)
EmptyStackNoOp ==
    (\/ lastOp' = "undo" /\ undo_stack = <<>>
     \/ lastOp' = "redo" /\ redo_stack = <<>>)
        => (Program' = Program /\ writes' = <<>> /\ ~crashed')

(* C39: a delete that records an entry for undo empties the redo stack,   *)
(* so that redo only repeats a delete that was just undone; and undo with *)
(* an empty undo stack, or redo with an empty redo stack, changes         *)
(* nothing.                                                               *)
C39_DeleteClearsRedo ==
    [][/\ (lastOp' = "delete" /\ Len(undo_stack') > Len(undo_stack))
              => redo_stack' = <<>>
       /\ EmptyStackNoOp]_vars

====
